---- MODULE Spec2Model ----
(***************************************************************************)
(* Orchestration of a power-flow solve (pandapower/powerflow.py): the full *)
(* entry point _powerflow, the recycled entry point _recycled_powerflow,   *)
(* the dispatcher _run_pf_algorithm, the commit step _ppci_to_net and the  *)
(* branch-less path _pf_without_branches.                                  *)
(*                                                                         *)
(* A network model is the record net.  One call of an entry point is one   *)
(* action; the functions of the source are operators that take the network *)
(* at call entry and return the network at call exit together with the     *)
(* events of the call, in order.  The numerical collaborators (the case    *)
(* builder, the solver backends, result extraction, cleanup) are consumed  *)
(* through their contracts: an internal case is a record of parameter      *)
(* versions, and what a backend answers is an input of the call.           *)
(* All elements of the modelled networks are in service.                   *)
(***************************************************************************)
EXTENDS Integers, Sequences, FiniteSets, TLC

VARIABLES
    net,      \* the network model: options, element tables, _ppc, results
    call,     \* the most recent call of an entry point (history)
    edits,    \* number of parameter edits made so far (history)
    altered   \* what was edited since the last full build (history)

vars == <<net, call, edits, altered>>

-----------------------------------------------------------------------------
(* Bounds of the model *)

\* a network has 0..MaxBranch branches
MaxBranch == 1
\* at most MaxEdits parameter edits in one behaviour
MaxEdits == 2
\* the configured iteration cap; a backend reports 1..MaxIteration iterations
MaxIteration == 2

-----------------------------------------------------------------------------
(* Configuration *)

\* the names the dispatcher knows, and "foo" for a name it does not know
KnownAlgorithms == {"nr", "iwamoto_nr", "bfsw", "fdbx", "fdxb", "gs"}
Algorithms == KnownAlgorithms \cup {"foo"}

\* the parameter categories a recycle flag exists for
Categories == {"bus_pq", "trafo", "gen"}

\* options["recycle"]: a dictionary from some of the categories to booleans
RecycleDicts == UNION {[S -> BOOLEAN] : S \in SUBSET Categories}

\* the empty dictionary
NoRecycle == CHOOSE r \in RecycleDicts : DOMAIN r = {}

\* elapsed time a backend reports: zero or not
Elapsed == {0, 1}

Options(acs, algs, inits, vdls, recs) ==
    [ac : acs, algorithm : algs, init_results : inits,
     voltage_depend_loads : vdls, recycle : recs,
     mode : {"pf"}, max_iteration : {MaxIteration}]

-----------------------------------------------------------------------------
(* Internal cases *)

\* bus array: the load/generation injections and the voltage columns
\* ("flat": start values, "sol": a converged solution, "part": the last
\* iterate of a solve that did not converge)
\* branch array: number of rows and the transformer parameters in it
\* gen array: the generator rows
NoInternal ==
    [populated |-> FALSE,
     bus |-> [pq |-> 0, V |-> "flat"],
     branch |-> [n |-> 0, trafo |-> 0, trafo3w |-> 0],
     gen |-> [p |-> 0]]

\* net["_ppc"] = None
NoCase ==
    [built |-> FALSE,
     bus |-> [pq |-> 0, V |-> "flat"],
     branch |-> [n |-> 0, trafo |-> 0, trafo3w |-> 0],
     gen |-> [p |-> 0],
     internal |-> NoInternal,
     success |-> FALSE, iterations |-> 0, et |-> 0]

\* what one backend answers when it is run
BackendAnswers == [success : BOOLEAN, iterations : 1..MaxIteration, et : Elapsed]

\* the Solve Result of a call in which no backend answered
NoResult == [produced |-> FALSE, case |-> NoCase]

-----------------------------------------------------------------------------
(* External collaborators, consumed through their contracts *)

\* auxiliary.py: injects the auxiliary elements into the element tables
_add_auxiliary_elements(n) == [n EXCEPT !.aux = TRUE]

\* auxiliary.py: removes the auxiliary elements; with res = False the result
\* tables are discarded as well
_clean_up(n, res) ==
    [n EXCEPT !.aux = FALSE, !.res = IF res THEN @ ELSE "empty"]

\* results.py: empties the result tables
reset_results(n) == [n EXCEPT !.res = "empty"]

\* results.py: keeps result tables that fit the element tables
verify_results(n) == n

\* results.py: populates the result tables from the merged case
_extract_results(n, result) == [n EXCEPT !.res = "populated"]

\* pd2ppc.py: derives the reduced case from the full case; the sub-structure
\* of a reduced case handed in (recycling) is kept on the derived case
_ppc2ppci(ppc, ppci) ==
    [built |-> TRUE, bus |-> ppc.bus, branch |-> ppc.branch, gen |-> ppc.gen,
     internal |-> ppci.internal,
     success |-> FALSE, iterations |-> 0, et |-> 0]

\* number of branch rows of the network: lines and transformers
BranchRows(n) == n.nline + Cardinality(n.lookup)

\* pd2ppc.py: the load/generation injections of the bus array
_calc_pq_elements_and_add_on_ppc(n, ppc) ==
    [ppc EXCEPT !.bus.pq = n.param["bus_pq"]]

\* build_branch.py: the two-winding transformer rows of the branch array
_calc_trafo_parameter(n, ppc) ==
    [ppc EXCEPT !.branch.trafo = n.param["trafo"]]

\* build_branch.py: the three-winding transformer rows of the branch array
_calc_trafo3w_parameter(n, ppc) ==
    [ppc EXCEPT !.branch.trafo3w = n.param["trafo"]]

\* build_gen.py: the generator array, rebuilt whole
_build_gen_ppc(n, ppc) == [ppc EXCEPT !.gen.p = n.param["gen"]]

\* pd2ppc.py: the full build. The voltage columns start flat, or from the
\* result tables when init_results asks for it; the sub-structure holds the
\* reduced arrays of this build
_pd2ppc(n) ==
    LET bus == [pq |-> n.param["bus_pq"],
                V |-> IF n.options.init_results /\ n.res = "populated"
                      THEN "sol" ELSE "flat"]
        branch == [n |-> BranchRows(n),
                   trafo |-> IF "trafo" \in n.lookup
                             THEN n.param["trafo"] ELSE 0,
                   trafo3w |-> IF "trafo3w" \in n.lookup
                               THEN n.param["trafo"] ELSE 0]
        gen == [p |-> n.param["gen"]]
        internal == [populated |-> TRUE, bus |-> bus, branch |-> branch,
                     gen |-> gen]
        ppc == [built |-> TRUE, bus |-> bus, branch |-> branch, gen |-> gen,
                internal |-> internal,
                success |-> FALSE, iterations |-> 0, et |-> 0]
    IN  [ppc |-> ppc, ppci |-> _ppc2ppci(ppc, ppc)]

\* results.py: writes the arrays of the Solve Result and its success flag
\* into the full case
_copy_results_ppci_to_ppc(result, ppc, mode) ==
    [ppc EXCEPT !.bus = result.bus, !.branch = result.branch,
                !.gen = result.gen, !.internal = result.internal,
                !.success = result.success,
                !.iterations = result.iterations, !.et = result.et]

\* the contract of a solver backend: the reduced case with solved voltage
\* columns, the convergence flag, the iteration count and the elapsed time
Solved(ppci, answer) ==
    [ppci EXCEPT !.bus.V = IF answer.success THEN "sol" ELSE "part",
                 !.success = answer.success,
                 !.iterations = answer.iterations,
                 !.et = answer.et]

\* pf/run_dc_pf.py: linear, always reports success
_run_dc_pf(ppci, answer) == Solved(ppci, [answer EXCEPT !.success = TRUE])

\* pf/run_newton_raphson_pf.py
_run_newton_raphson_pf(ppci, options, answer) == Solved(ppci, answer)

\* pf/run_bfswpf.py: returns the result first, then its success flag
_run_bfswpf(ppci, options, answer) ==
    <<Solved(ppci, answer), answer.success>>

\* pf/runpf_pypower.py: returns the result first, then its success flag
_runpf_pypower(ppci, options, answer) ==
    <<Solved(ppci, answer), answer.success>>

\* the record of one backend run: what it was handed and what it returned
Run(backend, ppci, options, returned) ==
    [backend |-> backend, ppci |-> ppci, options |-> options,
     returned |-> returned]

-----------------------------------------------------------------------------
(* powerflow.py *)

\* what an exception carries in its message: nothing
NoError == [algorithm |-> "", max_iteration |-> 0]

\* what a function of the source hands back: the network at its exit, how it
\* ended ("ok" or the exception raised), the events in order, the backend
\* runs in order, and the Solve Result that reached the commit step
Exit(n, outcome, trace, runs, result) ==
    [net |-> n, outcome |-> outcome, trace |-> trace, runs |-> runs,
     result |-> result, error |-> NoError]

\* a branch-less path that does not set the iteration count
_pf_without_branches_iter(ppci, options) ==
    [ppci EXCEPT !.bus.V = "sol",
                 !.success = TRUE,
                 !.et = 0]

\* _pf_without_branches: the trivial solution, marked converged
_pf_without_branches(ppci, options) ==
    [ppci EXCEPT !.bus.V = "sol",
                 !.success = TRUE,
                 !.iterations = 1,
                 !.et = 0]

\* a dispatcher that never takes the branch-less path
no_branches_never(ppci) == FALSE

\* _run_pf_algorithm, line 158: the reduced case has no branch rows
no_branches(ppci) == ppci.branch.n = 0

\* a routing that hands every name it does not know to the legacy backend
backend_for_default(algorithm) ==
    IF algorithm = "bfsw" THEN "_run_bfswpf"
    ELSE IF algorithm \in {"nr", "iwamoto_nr"} THEN "_run_newton_raphson_pf"
    ELSE "_runpf_pypower"

\* a routing that hands Gauss-Seidel to the Newton-Raphson backend
backend_for_gs(algorithm) ==
    IF algorithm = "bfsw" THEN "_run_bfswpf"
    ELSE IF algorithm \in {"nr", "iwamoto_nr", "gs"}
    THEN "_run_newton_raphson_pf"
    ELSE IF algorithm \in {"fdbx", "fdxb"} THEN "_runpf_pypower"
    ELSE "AlgorithmUnknown"

\* _run_pf_algorithm, lines 160-167: the backend an algorithm name selects
backend_for(algorithm) ==
    IF algorithm = "bfsw" THEN "_run_bfswpf"
    ELSE IF algorithm \in {"nr", "iwamoto_nr"} THEN "_run_newton_raphson_pf"
    ELSE IF algorithm \in {"fdbx", "fdxb", "gs"} THEN "_runpf_pypower"
    ELSE "AlgorithmUnknown"

\* _run_pf_algorithm: routes the reduced case to one backend.
\* raised is "none" or the exception; events and runs are in call order
_run_pf_algorithm(ppci, options, answer) ==
    LET algorithm == options.algorithm
        ac == options.ac
        ran(name, returned) ==
            [raised |-> "none", result |-> returned, events |-> <<name>>,
             runs |-> <<Run(name, ppci, options, returned)>>]
        backend == backend_for(algorithm)
    IN  IF ac
        THEN IF no_branches(ppci)
             THEN [raised |-> "none",
                   result |-> _pf_without_branches(ppci, options),
                   events |-> <<"_pf_without_branches">>,
                   runs |-> <<>>]
             ELSE IF backend = "_run_bfswpf"
             THEN ran(backend, _run_bfswpf(ppci, options, answer)[1])
             ELSE IF backend = "_run_newton_raphson_pf"
             THEN ran(backend, _run_newton_raphson_pf(ppci, options, answer))
             ELSE IF backend = "_runpf_pypower"
             THEN ran(backend, _runpf_pypower(ppci, options, answer)[1])
             ELSE [raised |-> "AlgorithmUnknown", result |-> NoCase,
                   events |-> <<>>, runs |-> <<>>]
        ELSE ran("_run_dc_pf", _run_dc_pf(ppci, answer))

\* a commit that stores the merged case and leaves the flag alone
store_converged_unset(n, result) == [n EXCEPT !.ppc = result]

\* _ppci_to_net, the else branch: the merged case is stored and the network
\* is marked converged
store_converged(n, result) ==
    [n EXCEPT !.ppc = result, !.converged = TRUE]

\* a commit that extracts the results of a failed solve before it raises
_ppci_to_net_eager(result, n) ==
    LET mode == n.options.mode
        merged == _copy_results_ppci_to_ppc(result, n.ppc, mode)
        n1 == [n EXCEPT !.ppc = merged]
    IN  IF ~merged.success
        THEN [net |-> _clean_up(_extract_results(n1, merged), FALSE),
              outcome |-> "LoadflowNotConverged",
              error |-> [algorithm |-> n.options.algorithm,
                         max_iteration |-> n.options.max_iteration],
              events |-> <<"_copy_results_ppci_to_ppc", "_extract_results",
                           "_clean_up(res=False)">>]
        ELSE LET n2 == store_converged(n1, merged)
                 n3 == _extract_results(n2, merged)
             IN  [net |-> _clean_up(n3, TRUE),
                  outcome |-> "ok",
                  error |-> NoError,
                  events |-> <<"_copy_results_ppci_to_ppc", "store",
                               "_extract_results", "_clean_up">>]

\* _ppci_to_net: merges the result into net["_ppc"] (the merge writes into
\* that case), then raises or commits
_ppci_to_net(result, n) ==
    LET mode == n.options.mode
        merged == _copy_results_ppci_to_ppc(result, n.ppc, mode)
        n1 == [n EXCEPT !.ppc = merged]
    IN  IF ~merged.success
        THEN [net |-> _clean_up(n1, FALSE),
              outcome |-> "LoadflowNotConverged",
              error |-> [algorithm |-> n.options.algorithm,
                         max_iteration |-> n.options.max_iteration],
              events |-> <<"_copy_results_ppci_to_ppc", "_clean_up(res=False)">>]
        ELSE LET n2 == store_converged(n1, merged)
                 n3 == _extract_results(n2, merged)
             IN  [net |-> _clean_up(n3, TRUE),
                  outcome |-> "ok",
                  error |-> NoError,
                  events |-> <<"_copy_results_ppci_to_ppc", "store",
                               "_extract_results", "_clean_up">>]

\* a full solve that leaves the flags of the previous call in place
reset_converged_kept(n) == n

\* _powerflow, lines 47-48: the flags are reset before anything else
reset_converged(n) ==
    [n EXCEPT !.converged = FALSE, !.OPF_converged = FALSE]

\* _powerflow, lines 51-54: prior results are kept for DC and init_results
prepare_results(n) ==
    IF ~n.options.ac \/ n.options.init_results
    THEN [net |-> verify_results(n), event |-> "verify_results"]
    ELSE [net |-> reset_results(n), event |-> "reset_results"]

\* _powerflow, lines 57-58
force_voltage_depend_loads(n) ==
    IF n.options.algorithm \notin {"nr", "bfsw"}
    THEN [n EXCEPT !.options.voltage_depend_loads = FALSE]
    ELSE n

\* a full solve that keeps a case the network already holds
store_ppc_kept(n, ppc) == IF n.ppc.built THEN n ELSE [n EXCEPT !.ppc = ppc]

\* _powerflow, line 64: the full case of this build is stored on the network
store_ppc(n, ppc) == [n EXCEPT !.ppc = ppc]

\* _powerflow: the full solve
_powerflow(n, answer) ==
    LET n1 == reset_converged(n)
        n2 == _add_auxiliary_elements(n1)
        p == prepare_results(n2)
        n3 == force_voltage_depend_loads(p.net)
        b == _pd2ppc(n3)
        n4 == store_ppc(n3, b.ppc)
        d == _run_pf_algorithm(b.ppci, n4.options, answer)
        head == <<"_add_auxiliary_elements", p.event, "_pd2ppc">> \o d.events
    IN  IF d.raised # "none"
        THEN Exit(n4, d.raised, head, d.runs, NoResult)
        ELSE LET c == _ppci_to_net(d.result, n4)
             IN  [Exit(c.net, c.outcome, head \o c.events, d.runs,
                       [produced |-> TRUE, case |-> d.result])
                     EXCEPT !.error = c.error]

\* _recycled_powerflow, lines 90-95: the subscripts net["_ppc"]["internal"][..]
\* succeed only on a case that carries a populated sub-structure
has_cached_build(n) == n.ppc.built /\ n.ppc.internal.populated

\* a minimal case made of the arrays of the full case
minimal_ppci_full(n) ==
    [built |-> TRUE,
     bus |-> n.ppc.bus,
     branch |-> n.ppc.branch,
     gen |-> n.ppc.gen,
     internal |-> n.ppc.internal,
     success |-> FALSE, iterations |-> 0, et |-> 0]

\* _recycled_powerflow, lines 90-95: the minimal case refers to the cached
\* arrays
minimal_ppci(n) ==
    [built |-> TRUE,
     bus |-> n.ppc.internal.bus,
     branch |-> n.ppc.internal.branch,
     gen |-> n.ppc.internal.gen,
     internal |-> n.ppc.internal,
     success |-> FALSE, iterations |-> 0, et |-> 0]

\* a check that lets every algorithm recycle
recycle_supported_any(ac, algorithm) == TRUE

\* a check that takes the sweep algorithm for a member of the family
recycle_supported_sweep(ac, algorithm) ==
    ~(algorithm \notin {"nr", "iwamoto_nr", "bfsw"} /\ ac)

\* _recycled_powerflow, line 101: only the Newton-Raphson family recycles
recycle_supported(ac, algorithm) ==
    ~(algorithm \notin {"nr", "iwamoto_nr"} /\ ac)

\* _recycled_powerflow, lines 106, 110, 118: a flag counts when it is present
\* and true
flagged(recycle, key) == key \in DOMAIN recycle /\ recycle[key]

\* a recycled solve that never refreshes the injections
update_bus_pq_skipped(n, ppc) == [ppc |-> ppc, events |-> <<>>]

\* _recycled_powerflow, lines 106-108
update_bus_pq(n, ppc) ==
    IF flagged(n.options.recycle, "bus_pq")
    THEN [ppc |-> _calc_pq_elements_and_add_on_ppc(n, ppc),
          events |-> <<"_calc_pq_elements_and_add_on_ppc">>]
    ELSE [ppc |-> ppc, events |-> <<>>]

\* a recycled solve that updates both transformer kinds without looking
\* them up
update_trafo_unguarded(n, ppc) ==
    IF flagged(n.options.recycle, "trafo")
    THEN [ppc |-> _calc_trafo3w_parameter(n, _calc_trafo_parameter(n, ppc)),
          events |-> <<"_calc_trafo_parameter", "_calc_trafo3w_parameter">>]
    ELSE [ppc |-> ppc, events |-> <<>>]

\* _recycled_powerflow, lines 110-116
update_trafo(n, ppc) ==
    IF flagged(n.options.recycle, "trafo")
    THEN LET lookup == n.lookup
             p1 == IF "trafo" \in lookup
                   THEN _calc_trafo_parameter(n, ppc) ELSE ppc
             p2 == IF "trafo3w" \in lookup
                   THEN _calc_trafo3w_parameter(n, p1) ELSE p1
         IN  [ppc |-> p2,
              events |->
                 (IF "trafo" \in lookup
                  THEN <<"_calc_trafo_parameter">> ELSE <<>>)
                 \o (IF "trafo3w" \in lookup
                     THEN <<"_calc_trafo3w_parameter">> ELSE <<>>)]
    ELSE [ppc |-> ppc, events |-> <<>>]

\* a recycled solve that rebuilds the generators whatever the flag says
update_gen_always(n, ppc) ==
    [ppc |-> _build_gen_ppc(n, ppc), events |-> <<"_build_gen_ppc">>]

\* _recycled_powerflow, lines 118-121 (nan_to_num leaves defined values)
update_gen(n, ppc) ==
    IF flagged(n.options.recycle, "gen")
    THEN [ppc |-> _build_gen_ppc(n, ppc), events |-> <<"_build_gen_ppc">>]
    ELSE [ppc |-> ppc, events |-> <<>>]

\* a recycled solve that goes through the dispatcher
solve_recycled_dispatched(ppci, options, answer) ==
    LET d == _run_pf_algorithm(ppci, options, answer)
    IN  [result |-> d.result, events |-> d.events, runs |-> d.runs]

\* _recycled_powerflow, line 147: the Newton-Raphson backend is called
\* directly
solve_recycled(ppci, options, answer) ==
    LET result == _run_newton_raphson_pf(ppci, options, answer)
    IN  [result |-> result,
         events |-> <<"_run_newton_raphson_pf">>,
         runs |-> <<Run("_run_newton_raphson_pf", ppci, options, result)>>]

\* _recycled_powerflow: the recycled solve
_recycled_powerflow(n, answer) ==
    LET options == n.options
        algorithm == options.algorithm
        ac == options.ac
    IN  IF ~has_cached_build(n)
        THEN Exit(n, "TypeError", <<>>, <<>>, NoResult)
        ELSE
        LET ppci0 == minimal_ppci(n)
        IN  IF ~ac
            THEN LET result == _run_dc_pf(ppci0, answer)
                     c == _ppci_to_net(result, n)
                 IN  [Exit(c.net, c.outcome, <<"_run_dc_pf">> \o c.events,
                           <<Run("_run_dc_pf", ppci0, options, result)>>,
                           [produced |-> TRUE, case |-> result])
                         EXCEPT !.error = c.error]
            ELSE IF ~recycle_supported(ac, algorithm)
            THEN Exit(n, "ValueError", <<>>, <<>>, NoResult)
            ELSE
            LET u1 == update_bus_pq(n, n.ppc)
                u2 == update_trafo(n, u1.ppc)
                u3 == update_gen(n, u2.ppc)
                ppc == u3.ppc
                ppci == [_ppc2ppci(ppc, ppci0) EXCEPT
                            !.internal = n.ppc.internal]
                n1 == [n EXCEPT !.ppc = ppc]
                d == solve_recycled(ppci, options, answer)
                c == _ppci_to_net(d.result, n1)
            IN  [Exit(c.net, c.outcome,
                      u1.events \o u2.events \o u3.events
                         \o <<"_ppc2ppci">> \o d.events \o c.events,
                      d.runs,
                      [produced |-> TRUE, case |-> d.result])
                 EXCEPT !.error = c.error]

-----------------------------------------------------------------------------
(* The state machine *)

NoCall ==
    [kind |-> "none", fresh |-> FALSE, outcome |-> "none", trace |-> <<>>,
     runs |-> <<>>, result |-> NoResult, error |-> NoError]

\* a network as created: no case built, no results, not converged
EmptyNet(options, nline, lookup) ==
    [converged |-> FALSE, OPF_converged |-> FALSE,
     ppc |-> NoCase, options |-> options,
     res |-> "empty", aux |-> FALSE,
     param |-> [c \in Categories |-> 0],
     nline |-> nline, lookup |-> lookup]

\* the configurations of the lifecycle specification
LifecycleOptions ==
    Options(BOOLEAN, Algorithms, BOOLEAN, BOOLEAN,
            {NoRecycle, [gen |-> TRUE]})

\* the recycle dictionaries of the recycling specification: the empty one and
\* those that name every category
RecycleChoices == {NoRecycle} \cup [Categories -> BOOLEAN]

\* the configurations of the recycling specification
RecycleOptions ==
    Options(BOOLEAN, {"nr", "iwamoto_nr"}, {FALSE}, {TRUE}, RecycleChoices)

\* the backend answers of the recycling specification: converged or not
RecycleAnswers ==
    {a \in BackendAnswers : a.iterations = MaxIteration /\ a.et = 1}

\* once the caller touches the network again, what is left of the last call
\* is how it ended and whether it produced a converged Solve Result
Past(c) ==
    [c EXCEPT !.fresh = FALSE, !.trace = <<>>, !.runs = <<>>,
              !.error = NoError,
              !.result.case = [NoCase EXCEPT !.success = c.result.case.success]]

\* the caller configures the next solve: one option at a time
SetOptions(S) ==
    /\ \E o \in S :
          /\ o # net.options
          /\ Cardinality({f \in DOMAIN o : o[f] # net.options[f]}) = 1
          /\ net' = [net EXCEPT !.options = o]
    /\ call' = Past(call)
    /\ UNCHANGED <<edits, altered>>

\* the caller adds or removes a line
EditTopology ==
    /\ \E k \in 0..MaxBranch :
          /\ k # net.nline
          /\ net' = [net EXCEPT !.nline = k]
    /\ call' = Past(call)
    /\ altered' = altered \cup {"topology"}
    /\ UNCHANGED edits

\* the caller changes the parameters of one category
EditParam ==
    /\ edits < MaxEdits
    /\ \E c \in Categories :
          /\ net' = [net EXCEPT !.param[c] = @ + 1]
          /\ altered' = altered \cup {c}
    /\ edits' = edits + 1
    /\ call' = Past(call)

Called(kind, x) ==
    [kind |-> kind, fresh |-> TRUE, outcome |-> x.outcome,
     trace |-> x.trace, runs |-> x.runs, result |-> x.result,
     error |-> x.error]

\* one call of _powerflow
Powerflow(answers) ==
    /\ \E answer \in answers :
          LET x == _powerflow(net, answer)
          IN  /\ net' = x.net
              /\ call' = Called("full", x)
    /\ altered' = {}
    /\ UNCHANGED edits

\* one call of _recycled_powerflow
RecycledPowerflow(answers) ==
    /\ \E answer \in answers :
          LET x == _recycled_powerflow(net, answer)
          IN  /\ net' = x.net
              /\ call' = Called("recycled", x)
    /\ UNCHANGED <<edits, altered>>

Init ==
    /\ \E o \in LifecycleOptions : net = EmptyNet(o, 0, {})
    /\ call = NoCall
    /\ edits = 0
    /\ altered = {}

Next ==
    \/ SetOptions(LifecycleOptions)
    \/ EditTopology
    \/ Powerflow(BackendAnswers)
    \/ RecycledPowerflow(BackendAnswers)

Spec == Init /\ [][Next]_vars

\* the recycling specification: a network without branches, or with a line
\* and any transformers, whose parameters the caller edits between
\* Newton-Raphson and DC solves; its topology stays as it is
InitRecycle ==
    /\ \E o \in RecycleOptions :
          \/ net = EmptyNet(o, 0, {})
          \/ \E lookup \in SUBSET {"trafo", "trafo3w"} :
                net = EmptyNet(o, 1, lookup)
    /\ call = NoCall
    /\ edits = 0
    /\ altered = {}

NextRecycle ==
    \/ SetOptions(RecycleOptions)
    \/ EditParam
    \/ Powerflow(RecycleAnswers)
    \/ RecycledPowerflow(RecycleAnswers)

SpecRecycle == InitRecycle /\ [][NextRecycle]_vars

-----------------------------------------------------------------------------
(* Properties *)

\* the event e happened in the most recent call
InTrace(e) == \E i \in 1..Len(call.trace) : call.trace[i] = e

CleanupEvents == {"_clean_up", "_clean_up(res=False)"}

BackendEvents ==
    {"_run_dc_pf", "_run_bfswpf", "_run_newton_raphson_pf", "_runpf_pypower",
     "_pf_without_branches"}

\* the exceptions the recycled entry point raises for a contract violation
InvalidRecycleState == {"ValueError", "TypeError"}

\* the most recent step was a call of the full entry point
FullCall == call.fresh /\ call.kind = "full"

\* the most recent step was a call of the recycled entry point
RecycledCall == call.fresh /\ call.kind = "recycled"

\* C1: after any sequence of solve calls through either entry point,
\* net.converged is true if and only if the most recent solve attempt produced
\* a Solve Result with success = true.
C1_ConvergedIffLastSolveSucceeded ==
    call.kind # "none" =>
        (net.converged <=>
            (call.result.produced /\ call.result.case.success))

\* C2: whenever a full solve has injected auxiliary elements, cleanup has
\* been invoked before the call ends, for every outcome, and no auxiliary
\* element is visible afterwards.
C2_CleanupOnEveryExit ==
    (FullCall /\ InTrace("_add_auxiliary_elements")) =>
        /\ \E e \in CleanupEvents : InTrace(e)
        /\ ~net.aux

\* C3: after any call that ends in LoadflowNotConverged the result tables
\* are empty and net.converged is false.
C3_ConvergenceOrClean ==
    call.outcome = "LoadflowNotConverged" =>
        (net.res = "empty" /\ ~net.converged)

\* the most recent step, seen as a step: a call of the full entry point that
\* ended in AlgorithmUnknown
UnknownAlgorithmStep ==
    call'.fresh /\ call'.kind = "full" /\ call'.outcome = "AlgorithmUnknown"

RecycleViolation(n) ==
    \/ ~has_cached_build(n)
    \/ n.options.ac /\ n.options.algorithm \notin {"nr", "iwamoto_nr"}

\* C5: a recycled solve that is a contract violation (AC with an algorithm
\* outside the Newton-Raphson family, or no cached build) fails before any
\* backend runs, before any update is applied and with the network unchanged.
C5_RecycleViolationFailsEarly ==
    [][(call'.fresh /\ call'.kind = "recycled" /\ RecycleViolation(net)) =>
          /\ call'.outcome \in InvalidRecycleState
          /\ call'.runs = <<>>
          /\ call'.trace = <<>>
          /\ net' = net]_vars

\* C5 witness: a rejected recycled solve on a network that holds a cached
\* build and is marked converged
C5_Witness ==
    /\ RecycledCall /\ call.outcome = "ValueError"
    /\ has_cached_build(net) /\ net.converged

\* C6: with at least one branch, ac = true and an algorithm name outside the
\* known ones, the dispatcher fails with AlgorithmUnknown and no backend has
\* been invoked.
C6_UnknownAlgorithmRejected ==
    (/\ FullCall
     /\ net.options.ac
     /\ net.options.algorithm \notin KnownAlgorithms
     /\ BranchRows(net) >= 1) =>
        /\ call.outcome = "AlgorithmUnknown"
        /\ call.runs = <<>>
        /\ \A e \in BackendEvents : ~InTrace(e)

\* C6 witness: the dispatcher rejected an unknown name on a case with a branch
C6_Witness ==
    /\ FullCall /\ call.outcome = "AlgorithmUnknown"
    /\ net.ppc.branch.n >= 1
    /\ net.options.algorithm = "foo"

\* the Solve Result of the most recent call is the branch-less one
BranchlessResult ==
    /\ InTrace("_pf_without_branches")
    /\ call.runs = <<>>
    /\ call.result.produced
    /\ call.result.case.success
    /\ call.result.case.iterations = 1
    /\ call.result.case.et = 0

\* C7 as stated: with zero branches and any configuration the dispatcher
\* takes the branch-less path, ahead of the DC check, and returns
\* success = true, iterations = 1, elapsed_time = 0.
C7_BranchlessForAnyConfiguration ==
    (FullCall /\ BranchRows(net) = 0) => BranchlessResult

\* C7 as amended: with zero branches and ac = true (any algorithm name, known
\* or not) the dispatcher takes the branch-less path ahead of the dispatch by
\* name and returns success = true, iterations = 1, elapsed_time = 0; with
\* ac = false the DC backend is run instead, once, and reports success.
C7_BranchlessForAC ==
    (FullCall /\ BranchRows(net) = 0) =>
        IF net.options.ac
        THEN BranchlessResult /\ call.outcome = "ok"
        ELSE /\ ~InTrace("_pf_without_branches")
             /\ Len(call.runs) = 1
             /\ call.runs[1].backend = "_run_dc_pf"
             /\ call.result.case.success

\* C7 witness: the branch-less path was taken for a name the dispatcher does
\* not know
C7_Witness ==
    /\ FullCall /\ BranchRows(net) = 0
    /\ net.options.ac /\ net.options.algorithm = "foo"
    /\ call.outcome = "ok"

\* C8 as stated: a recycled solve with recycle.gen = true and algorithm =
\* bfsw always fails with InvalidRecycleState, whatever the other options
\* (ac = false included) and the network state.
C8_SweepRecycleAlwaysRejected ==
    (/\ RecycledCall
     /\ flagged(net.options.recycle, "gen")
     /\ net.options.algorithm = "bfsw") =>
        call.outcome \in InvalidRecycleState

\* C8 as amended: a recycled solve with ac = true and an algorithm outside
\* the Newton-Raphson family (bfsw with recycle.gen = true among them) always
\* fails with InvalidRecycleState and runs no backend, in every network
\* state; with ac = false the algorithm name is not looked at.
C8_ACRecycleOutsideFamilyRejected ==
    (/\ RecycledCall
     /\ net.options.ac
     /\ net.options.algorithm \notin {"nr", "iwamoto_nr"}) =>
        /\ call.outcome \in InvalidRecycleState
        /\ call.runs = <<>>

\* C8 witness: bfsw with recycle.gen = true and ac = true was rejected on a
\* network that holds a cached build
C8_Witness ==
    /\ RecycledCall
    /\ flagged(net.options.recycle, "gen")
    /\ net.options.algorithm = "bfsw" /\ net.options.ac
    /\ has_cached_build(net)
    /\ call.outcome = "ValueError"

\* the backend the dispatch mapping names for a configuration
MappedBackend(options) ==
    IF ~options.ac THEN "_run_dc_pf"
    ELSE CASE options.algorithm = "bfsw" -> "_run_bfswpf"
           [] options.algorithm = "nr" -> "_run_newton_raphson_pf"
           [] options.algorithm = "iwamoto_nr" -> "_run_newton_raphson_pf"
           [] options.algorithm = "fdbx" -> "_runpf_pypower"
           [] options.algorithm = "fdxb" -> "_runpf_pypower"
           [] options.algorithm = "gs" -> "_runpf_pypower"
           [] OTHER -> "none"

\* C9: with at least one branch the dispatcher invokes exactly one backend,
\* once, and returns its result unchanged: DC when ac is false, else sweep
\* for bfsw, Newton-Raphson for nr and iwamoto_nr, legacy pypower for fdbx,
\* fdxb and gs.
C9_DispatchMapping ==
    (/\ FullCall
     /\ BranchRows(net) >= 1
     /\ (~net.options.ac \/ net.options.algorithm \in KnownAlgorithms)) =>
        /\ Len(call.runs) = 1
        /\ call.runs[1].backend = MappedBackend(net.options)
        /\ call.runs[1].ppci.branch.n = BranchRows(net)
        /\ call.result.produced
        /\ call.result.case = call.runs[1].returned
        /\ Cardinality({i \in 1..Len(call.trace) :
                           call.trace[i] \in BackendEvents}) = 1

\* C9 witness: Gauss-Seidel went to the legacy backend on a case with a
\* branch, and the solve did not converge
C9_Witness ==
    /\ FullCall /\ BranchRows(net) >= 1
    /\ net.options.ac /\ net.options.algorithm = "gs"
    /\ call.outcome = "LoadflowNotConverged"

\* the network parameters a reduced case carries: injections, branch rows
\* and transformer parameters, generator rows
Parameters(ppci) ==
    [pq |-> ppci.bus.pq, branch |-> ppci.branch, gen |-> ppci.gen]

\* the backend runs of a full-rebuild solve of the network n (what a run is
\* handed does not depend on what the backend answers)
FullRebuildRuns(n) ==
    _powerflow(n, CHOOSE a \in BackendAnswers : TRUE).runs

\* the recycled run r and the full-rebuild run f solve the same problem
SameProblem(r, f) ==
    /\ r.backend = f.backend
    /\ Parameters(r.ppci) = Parameters(f.ppci)
    /\ r.options = f.options

\* the most recent call was a recycled Newton-Raphson solve with
\* recycle = {bus_pq} that reached the backend, on a network where nothing
\* but bus_pq parameters was edited since the last full build
BusPqRecycle ==
    /\ RecycledCall
    /\ net.options.ac /\ net.options.algorithm = "nr"
    /\ flagged(net.options.recycle, "bus_pq")
    /\ ~flagged(net.options.recycle, "trafo")
    /\ ~flagged(net.options.recycle, "gen")
    /\ altered \subseteq {"bus_pq"}
    /\ Len(call.runs) = 1

FailedFullStepAfterSuccess ==
    /\ call'.fresh /\ call'.kind = "full"
    /\ call'.outcome \in {"LoadflowNotConverged", "AlgorithmUnknown"}
    /\ net.ppc.built /\ net.ppc.success

\* C11 as stated: a full solve that ends in LoadflowNotConverged or
\* AlgorithmUnknown does not replace the Full Internal Case (and its internal
\* sub-structure) stored on the network by the last successful solve.
C11_FailedSolveKeepsCache ==
    [][FailedFullStepAfterSuccess => net'.ppc = net.ppc]_vars

\* C11 as amended: the Recycle Cache a recycled solve consumes is the one of
\* the most recent full build, whatever the outcome of its solve: after every
\* full solve, also one that ends in LoadflowNotConverged or AlgorithmUnknown,
\* net._ppc is a built case whose internal sub-structure holds the arrays of
\* the network as it is at that call.
C11_CacheIsLastFullBuild ==
    FullCall =>
        /\ has_cached_build(net)
        /\ Parameters(net.ppc.internal) = Parameters(_pd2ppc(net).ppc)
        /\ (call.outcome # "ok" => ~net.ppc.success)

\* C11 witness: the case stored on the network is that of a full solve that
\* did not converge, on a network with a branch
C11_Witness ==
    /\ FullCall /\ call.outcome = "LoadflowNotConverged"
    /\ net.ppc.built /\ ~net.ppc.success
    /\ net.ppc.internal.branch.n >= 1

\* the event e happened in the call c
TraceHas(c, e) == \E i \in 1..Len(c.trace) : c.trace[i] = e

\* the most recent step, seen as a step: an AC recycled solve that reached
\* the backend
ACRecycledStep ==
    /\ call'.fresh /\ call'.kind = "recycled"
    /\ net.options.ac
    /\ Len(call'.runs) = 1

\* C12: in an AC recycled solve the bus_pq update runs iff recycle.bus_pq is
\* true, the update of the transformers present iff recycle.trafo is true,
\* the generator rebuild iff recycle.gen is true; a category whose flag is
\* absent or false reaches the re-derived reduced case as the stored full
\* case held it, and the cached internal sub-structure is carried onto the
\* re-derived case.
C12_OnlyFlaggedCategoriesReapplied ==
    [][ACRecycledStep =>
          LET rec == net.options.recycle
              handed == call'.runs[1].ppci
          IN  /\ TraceHas(call', "_calc_pq_elements_and_add_on_ppc")
                    <=> flagged(rec, "bus_pq")
              /\ handed.bus.pq = (IF flagged(rec, "bus_pq")
                                  THEN net.param["bus_pq"]
                                  ELSE net.ppc.bus.pq)
              /\ TraceHas(call', "_calc_trafo_parameter")
                    <=> (flagged(rec, "trafo") /\ "trafo" \in net.lookup)
              /\ TraceHas(call', "_calc_trafo3w_parameter")
                    <=> (flagged(rec, "trafo") /\ "trafo3w" \in net.lookup)
              /\ handed.branch.trafo =
                    (IF flagged(rec, "trafo") /\ "trafo" \in net.lookup
                     THEN net.param["trafo"] ELSE net.ppc.branch.trafo)
              /\ handed.branch.trafo3w =
                    (IF flagged(rec, "trafo") /\ "trafo3w" \in net.lookup
                     THEN net.param["trafo"] ELSE net.ppc.branch.trafo3w)
              /\ handed.branch.n = net.ppc.branch.n
              /\ TraceHas(call', "_build_gen_ppc") <=> flagged(rec, "gen")
              /\ handed.gen.p = (IF flagged(rec, "gen")
                                 THEN net.param["gen"] ELSE net.ppc.gen.p)
              /\ handed.internal = net.ppc.internal]_vars

\* C12 witness: a recycled solve refreshed the injections and left an edited
\* generator, whose flag is false, as the stored case held it
C12_Witness ==
    /\ RecycledCall /\ net.options.ac /\ Len(call.runs) = 1
    /\ flagged(net.options.recycle, "bus_pq")
    /\ "gen" \in DOMAIN net.options.recycle
    /\ ~net.options.recycle["gen"]
    /\ call.runs[1].ppci.bus.pq = net.param["bus_pq"]
    /\ net.param["bus_pq"] > 0
    /\ call.runs[1].ppci.gen.p # net.param["gen"]

\* C13: in an AC Newton-family recycled solve with recycle.trafo = true the
\* trafo update runs only if the branch lookup has a trafo entry and the
\* trafo3w update only if it has a trafo3w entry; with neither entry both are
\* skipped, no error is raised and the solve goes on to the Newton-Raphson
\* backend.
C13_AbsentCategoryIsNoOp ==
    (/\ RecycledCall
     /\ net.options.ac
     /\ net.options.algorithm \in {"nr", "iwamoto_nr"}
     /\ flagged(net.options.recycle, "trafo")
     /\ has_cached_build(net)) =>
        /\ InTrace("_calc_trafo_parameter") <=> "trafo" \in net.lookup
        /\ InTrace("_calc_trafo3w_parameter") <=> "trafo3w" \in net.lookup
        /\ call.outcome \in {"ok", "LoadflowNotConverged"}
        /\ Len(call.runs) = 1
        /\ call.runs[1].backend = "_run_newton_raphson_pf"
        /\ call.runs[1].ppci.branch.trafo =
              (IF "trafo" \in net.lookup THEN net.param["trafo"] ELSE 0)
        /\ call.runs[1].ppci.branch.trafo3w =
              (IF "trafo3w" \in net.lookup THEN net.param["trafo"] ELSE 0)

\* C13 witness: recycle.trafo = true on a network without transformers, after
\* an edit of the transformer parameters, and the solve converged
C13_Witness ==
    /\ RecycledCall /\ net.options.ac
    /\ flagged(net.options.recycle, "trafo")
    /\ net.lookup = {} /\ net.nline = 1
    /\ net.param["trafo"] > 0
    /\ call.outcome = "ok"

\* the last n events of the most recent call
TraceTail(n) ==
    IF Len(call.trace) >= n
    THEN SubSeq(call.trace, Len(call.trace) - n + 1, Len(call.trace))
    ELSE <<>>

\* the most recent call reached the commit step with a Solve Result
Committed == call.fresh /\ call.result.produced

\* C14: result extraction is invoked only for a successful Solve Result; on
\* success the call ends with merge, store (with converged = true),
\* extraction, cleanup in this order; on failure the merge is followed by
\* cleanup with results-invalid and the DidNotConverge error, without
\* extraction.
C14_CommitOrdering ==
    /\ (call.fresh /\ InTrace("_extract_results")) =>
          /\ call.result.produced
          /\ call.result.case.success
    /\ (Committed /\ call.result.case.success) =>
          /\ TraceTail(4) = <<"_copy_results_ppci_to_ppc", "store",
                              "_extract_results", "_clean_up">>
          /\ call.outcome = "ok"
          /\ net.converged
          /\ net.res = "populated"
          /\ ~InTrace("_clean_up(res=False)")
    /\ (Committed /\ ~call.result.case.success) =>
          /\ TraceTail(2) = <<"_copy_results_ppci_to_ppc",
                              "_clean_up(res=False)">>
          /\ call.outcome = "LoadflowNotConverged"
          /\ ~InTrace("_extract_results")
          /\ ~InTrace("store")
          /\ net.res = "empty"

\* C14 witness: a solve started from prior results did not converge and left
\* the result tables empty
C14_Witness ==
    /\ Committed /\ ~call.result.case.success
    /\ call.outcome = "LoadflowNotConverged"
    /\ net.options.init_results
    /\ net.res = "empty"

\* the most recent step is a full solve
FullStep == call'.fresh /\ call'.kind = "full"

\* C15: a full solve forces voltage_depend_loads to false for every algorithm
\* that is neither of the Newton family (nr, iwamoto_nr) nor bfsw and leaves
\* it at its configured value for those.
C15_VoltageDependLoadsForced ==
    [][FullStep =>
          net'.options.voltage_depend_loads =
              (IF net.options.algorithm \in {"nr", "iwamoto_nr", "bfsw"}
               THEN net.options.voltage_depend_loads
               ELSE FALSE)]_vars

\* the most recent step is a recycled solve on the DC path
DCRecycledStep ==
    /\ call'.fresh /\ call'.kind = "recycled"
    /\ ~net.options.ac
    /\ has_cached_build(net)

\* C16: with ac = false a recycled solve runs the DC backend directly on the
\* minimal case made of the cached internal sub-structure and commits the
\* result, whatever config.algorithm is and without any of the bus_pq, trafo
\* and gen updates.
C16_DCRecycleDirect ==
    [][DCRecycledStep =>
          /\ Len(call'.runs) = 1
          /\ call'.runs[1].backend = "_run_dc_pf"
          /\ call'.runs[1].ppci.bus = net.ppc.internal.bus
          /\ call'.runs[1].ppci.branch = net.ppc.internal.branch
          /\ call'.runs[1].ppci.gen = net.ppc.internal.gen
          /\ call'.runs[1].ppci.internal = net.ppc.internal
          /\ call'.trace[1] = "_run_dc_pf"
          /\ ~TraceHas(call', "_calc_pq_elements_and_add_on_ppc")
          /\ ~TraceHas(call', "_calc_trafo_parameter")
          /\ ~TraceHas(call', "_calc_trafo3w_parameter")
          /\ ~TraceHas(call', "_build_gen_ppc")
          /\ call'.outcome = "ok"
          /\ net'.converged
          /\ net'.ppc.bus = call'.runs[1].returned.bus
          /\ net'.ppc.success]_vars

\* C16 witness: a DC recycled solve with an unrecognized algorithm name and a
\* flagged category was handed the cached arrays and converged
C16_Witness ==
    /\ RecycledCall /\ ~net.options.ac
    /\ net.options.algorithm = "foo"
    /\ flagged(net.options.recycle, "gen")
    /\ call.outcome = "ok"
    /\ call.runs[1].ppci.bus.V = "flat"

\* C17: a solve call through either entry point never returns normally with
\* converged = false: on a normal return converged is true and net._ppc is
\* the merged result of this call; every unsuccessful Solve Result ends the
\* call with LoadflowNotConverged carrying the configured algorithm name and
\* max_iteration.
C17_NormalReturnIsConverged ==
    /\ (call.fresh /\ call.outcome = "ok") =>
          /\ net.converged
          /\ call.result.produced
          /\ call.result.case.success
          /\ net.ppc.success
          /\ net.ppc.bus = call.result.case.bus
          /\ net.ppc.branch = call.result.case.branch
          /\ net.ppc.gen = call.result.case.gen
          /\ net.ppc.iterations = call.result.case.iterations
          /\ net.ppc.et = call.result.case.et
    /\ (Committed /\ ~call.result.case.success) =>
          /\ call.outcome = "LoadflowNotConverged"
          /\ call.error = [algorithm |-> net.options.algorithm,
                           max_iteration |-> net.options.max_iteration]

\* C17 witness: an AC recycled solve returned normally, with the network
\* marked converged and the solved case stored on it
C17_Witness ==
    /\ RecycledCall /\ call.outcome = "ok"
    /\ net.converged
    /\ net.ppc.bus.V = "sol"
    /\ net.options.ac

\* C18: a full solve with an unrecognized algorithm name is rejected exactly
\* when ac is true and the reduced case has at least one branch; with
\* ac = false, or ac = true and no branch, it raises no UnknownAlgorithm
\* error, runs the DC backend or the branch-less path and ends with
\* converged = true.
C18_UnknownAlgorithmRejectedOnlyWhenRouted ==
    (FullCall /\ net.options.algorithm \notin KnownAlgorithms) =>
        /\ call.outcome = "AlgorithmUnknown"
              <=> (net.options.ac /\ BranchRows(net) >= 1)
        /\ ~(net.options.ac /\ BranchRows(net) >= 1) =>
              /\ call.outcome = "ok"
              /\ net.converged
              /\ IF net.options.ac
                 THEN InTrace("_pf_without_branches") /\ call.runs = <<>>
                 ELSE /\ Len(call.runs) = 1
                      /\ call.runs[1].backend = "_run_dc_pf"
                      /\ ~InTrace("_pf_without_branches")

\* C18 witness: a DC full solve with an unrecognized algorithm name on a
\* network with a branch converged
C18_Witness ==
    /\ FullCall /\ net.options.algorithm \notin KnownAlgorithms
    /\ ~net.options.ac /\ BranchRows(net) >= 1
    /\ call.outcome = "ok" /\ net.converged

\* C19: an AC recycled solve bypasses the dispatcher: after the flagged
\* updates it runs the Newton-Raphson backend directly, also when the
\* re-derived reduced case has no branch, and it neither injects auxiliary
\* elements nor resets or verifies the result tables, while cleanup is run at
\* the commit.
C19_RecycledBypassesDispatcher ==
    (/\ RecycledCall
     /\ net.options.ac
     /\ net.options.algorithm \in {"nr", "iwamoto_nr"}
     /\ has_cached_build(net)) =>
        /\ Len(call.runs) = 1
        /\ call.runs[1].backend = "_run_newton_raphson_pf"
        /\ InTrace("_run_newton_raphson_pf")
        /\ ~InTrace("_pf_without_branches")
        /\ ~InTrace("_add_auxiliary_elements")
        /\ ~InTrace("reset_results")
        /\ ~InTrace("verify_results")
        /\ ~InTrace("_pd2ppc")
        /\ (InTrace("_clean_up") \/ InTrace("_clean_up(res=False)"))
        /\ ~net.aux

\* C19 witness: an AC recycled solve on a reduced case without branches ran
\* the Newton-Raphson backend
C19_Witness ==
    /\ RecycledCall /\ net.options.ac
    /\ Len(call.runs) = 1
    /\ call.runs[1].ppci.branch.n = 0
    /\ call.runs[1].backend = "_run_newton_raphson_pf"

====
